---- MODULE Spec2Model ----
(***************************************************************************)
(* AutoTab: ghost-text suggestions for text fields.                        *)
(*                                                                         *)
(* The model follows the class-based content script                        *)
(* (src/public/content-script.js lines 1-473: GhostOverlayManager,         *)
(* InputStateManager, AutoTab) and the background service worker that      *)
(* answers its generate_suggestion messages (src/public/background.js      *)
(* lines 139-243).                                                         *)
(*                                                                         *)
(* Texts are TLA+ strings.  The caret of a field is at the end of its      *)
(* value (the user types at the end, and a programmatic assignment of      *)
(* element.value leaves the caret at the end), so the text before the      *)
(* caret is the whole value.                                               *)
(***************************************************************************)
EXTENDS Integers, Sequences, FiniteSets, Bags, TLC

(***************************************************************************)
(* Program constants.                                                      *)
(***************************************************************************)
MIN_TEXT_LENGTH == 10

(***************************************************************************)
(* Bounds of the model.                                                    *)
(***************************************************************************)
\* Number of text fields of the page.
NumFields == 2
\* The user does not type beyond this length of a field's value.
MaxLen == 11
\* At most this many generate_suggestion calls of one field are in flight.
MaxInflight == 1
\* The same where the background is slow (SpecRace).
MaxRace == 2

Fields == 1..NumFields
NoField == 0

(***************************************************************************)
(* The values the environment supplies.                                    *)
(***************************************************************************)
\* element.value of a field when the content script attaches to it: a text of
\* letters, and for the validation gate a text of digits and one of symbols.
InitValues == {"abcdefghi"}
GateValues == {"1234567890", "----------"}
\* The data of the insertions the user makes (typed, pasted, autocorrected).
Inserted == {"j", "j ", " "}
\* The completion texts the remote API returns.
ApiTexts == {" j j\n", " \n"}
\* What the HTTP call of the background can come to.
ApiOutcomes ==
    {[kind |-> "ok", text |-> t] : t \in ApiTexts}
        \cup {[kind |-> k, text |-> ""] : k \in {"no_text", "http_error", "network_error"}}

(***************************************************************************)
(* Strings.                                                                *)
(***************************************************************************)
Char(s, i) == SubSeq(s, i, i)

Digits == {"0", "1", "2", "3", "4", "5", "6", "7", "8", "9"}
Letters ==
    {"a", "b", "c", "d", "e", "f", "g", "h", "i", "j", "k", "l", "m",
     "n", "o", "p", "q", "r", "s", "t", "u", "v", "w", "x", "y", "z",
     "A", "B", "C", "D", "E", "F", "G", "H", "I", "J", "K", "L", "M",
     "N", "O", "P", "Q", "R", "S", "T", "U", "V", "W", "X", "Y", "Z"}
WhiteSpace == {" ", "\n", "\t", "\r"}

\* String.prototype.trim
RECURSIVE TrimStart(_)
TrimStart(s) ==
    IF s # "" /\ Char(s, 1) \in WhiteSpace THEN TrimStart(SubSeq(s, 2, Len(s))) ELSE s
RECURSIVE TrimEnd(_)
TrimEnd(s) ==
    IF s # "" /\ Char(s, Len(s)) \in WhiteSpace
    THEN TrimEnd(SubSeq(s, 1, Len(s) - 1)) ELSE s
Trim(s) == TrimEnd(TrimStart(s))

\* String.prototype.startsWith
StartsWith(s, p) == Len(p) <= Len(s) /\ SubSeq(s, 1, Len(p)) = p
\* String.prototype.substring(n)
Substring(s, n) == SubSeq(s, n + 1, Len(s))

\* completion.replace(/\n/g, "")
RECURSIVE StripNewlines(_)
StripNewlines(s) ==
    IF s = "" THEN ""
    ELSE (IF Char(s, 1) = "\n" THEN "" ELSE Char(s, 1))
             \o StripNewlines(SubSeq(s, 2, Len(s)))

(***************************************************************************)
(* The background service worker (src/public/background.js).               *)
(***************************************************************************)
\* What a function call comes to: a returned value or a thrown exception.
Return(v) == [threw |-> FALSE, value |-> v]
Throw(msg) == [threw |-> TRUE, value |-> msg]

\* The text of the exception the HTTP call ends with.
ErrorText(outcome) ==
    IF outcome.kind = "http_error" THEN "Error: HTTP error! Status: 500"
    ELSE "TypeError: Failed to fetch"

cleanCompletion(userText, completion) ==
    IF completion = "" THEN "" ELSE Trim(StripNewlines(completion))

\* The try block of getGeminiResponse: fetch rejects on a network error, a
\* status that is not ok throws, a payload without text gives the default.
getGeminiResponseTry(userPrompt, outcome) ==
    IF outcome.kind \in {"network_error", "http_error"} THEN Throw(ErrorText(outcome))
    ELSE LET completion ==
                 IF outcome.kind = "ok" /\ outcome.text # "" THEN outcome.text
                 ELSE "No response from Gemini"
         IN  Return(cleanCompletion(userPrompt, completion))

getGeminiResponse(userPrompt, outcome) ==
    LET r == getGeminiResponseTry(userPrompt, outcome)
    IN  IF r.threw THEN "Error fetching response " \o r.value ELSE r.value

\* formatPromptWithContext reads context.url: a message without context throws.
handleSuggestionRequest(text, hasContext, outcome) ==
    IF ~hasContext THEN Throw("Cannot read properties of undefined")
    ELSE Return(cleanCompletion(text, getGeminiResponse(text, outcome)))

\* The responses of the listener: {suggestion: s} or {error: message}.
SuggestionResponse(s) == [hasSuggestion |-> TRUE, suggestion |-> s, error |-> ""]
ErrorResponse(msg) == [hasSuggestion |-> FALSE, suggestion |-> "", error |-> msg]
NoResponse == [hasSuggestion |-> FALSE, suggestion |-> "", error |-> ""]

\* chrome.runtime.onMessage listener for generate_suggestion.
onMessage(text, hasContext, outcome) ==
    LET r == handleSuggestionRequest(text, hasContext, outcome)
    IN  IF r.threw THEN ErrorResponse(r.value) ELSE SuggestionResponse(r.value)

(***************************************************************************)
(* What chrome.runtime.sendMessage settles with in the content script.     *)
(***************************************************************************)
Resolved(resp) == [rejected |-> FALSE, defined |-> TRUE, response |-> resp]
ResolvedUndefined == [rejected |-> FALSE, defined |-> FALSE, response |-> NoResponse]
Rejected == [rejected |-> TRUE, defined |-> FALSE, response |-> NoResponse]

\* The settlements that are not a {suggestion: s} response: a rejection,
\* undefined, and the {error: message} of the listener's catch.
ChannelResults == {Rejected, ResolvedUndefined, Resolved(ErrorResponse("error"))}

(***************************************************************************)
(* GhostOverlayManager: the overlay of one field.                          *)
(***************************************************************************)
\* present: the overlays map has an entry for the field; attached: the number
\* of overlay elements of the field in the document; content and ghost: the
\* text of the two spans of the overlay.
NoOverlay == [present |-> FALSE, attached |-> 0, content |-> "", ghost |-> ""]

\* A createOrUpdate that creates an overlay element on every call.
createOrUpdateNew(ov, val, suggestion) ==
    [present |-> TRUE, attached |-> ov.attached + 1, content |-> val, ghost |-> suggestion]

\* createOrUpdate: the overlay is created if the field has none, then its
\* content is the text before the caret and its ghost text the suggestion.
createOrUpdate(ov, val, suggestion) ==
    [present |-> TRUE,
     attached |-> IF ov.present THEN ov.attached ELSE ov.attached + 1,
     content |-> val,
     ghost |-> suggestion]

\* A remove without the test for an overlay.
removeUnchecked(ov) ==
    [present |-> FALSE, attached |-> ov.attached - 1, content |-> "", ghost |-> ""]

\* remove: detaches and forgets the overlay if there is one.
remove(ov) ==
    IF ov.present
    THEN [present |-> FALSE, attached |-> ov.attached - 1, content |-> "", ghost |-> ""]
    ELSE ov

(***************************************************************************)
(* InputStateManager: the state record and the debounce timer of a field.  *)
(***************************************************************************)
\* cachedResponse is null or a text: the empty set or a singleton.
Null == {}
Text(t) == {t}

getState(val) ==
    [userText |-> val, suggestion |-> "", originalText |-> "", cachedResponse |-> Null]

\* A clearDebounceTimer that cancels nothing.
clearDebounceTimerNone(tms, h) == tms

\* clearTimeout(debounceTimers.get(element)): the pending timer with that
\* handle, if any, is cancelled.
clearDebounceTimer(tms, h) == {t \in tms : t.id # h}

(***************************************************************************)
(* AutoTab: the handlers, as functions of what they read.  Each gives the  *)
(* field's new state record, overlay, pending timers and timer handle.     *)
(***************************************************************************)
\* An input event: event.data is a string, or null/undefined.
DataEvent(p) == [hasData |-> TRUE, data |-> p]
NoDataEvent == [hasData |-> FALSE, data |-> ""]

\* /^\d+$/.test(text) and /^[^a-zA-Z0-9]+$/.test(text)
OnlyDigits(text) == text # "" /\ \A i \in 1..Len(text) : Char(text, i) \in Digits
OnlySymbols(text) ==
    text # "" /\ \A i \in 1..Len(text) : Char(text, i) \notin Letters \cup Digits

\* AutoTab.isValidInput, the one handleInput calls.
isValidInput(text) == Len(text) >= MIN_TEXT_LENGTH

\* The function isValidInput of the function-based content script, which no
\* handler of the class AutoTab calls.
isValidInputFunction(text) ==
    IF Len(text) < MIN_TEXT_LENGTH THEN FALSE
    ELSE IF OnlyDigits(text) THEN FALSE
    ELSE IF OnlySymbols(text) THEN FALSE
    ELSE TRUE

Outcome(st, ov, tms, h, branch) ==
    [state |-> st, overlay |-> ov, timers |-> tms, handle |-> h, branch |-> branch]

\* A Case 1 that matches only an insertion of the whole suggestion.
matchesSuggestionWhole(suggestion, newInput) == suggestion = newInput

\* Case 1 of handleInput: does the inserted text begin the suggestion?
matchesSuggestion(suggestion, newInput) == StartsWith(suggestion, newInput)

\* A Case 1 that takes one character off the suggestion whatever was inserted.
remainingSuggestionOneChar(suggestion, newInput) == Substring(suggestion, 1)

\* Case 1 of handleInput: what is left of the suggestion.
remainingSuggestion(suggestion, newInput) == Substring(suggestion, Len(newInput))

\* Case 2 of handleInput: a space that does not begin the suggestion keeps the
\* suggestion; the content span of the overlay, if any, gets the whole value.
adjustForSpace(ov, val) == IF ov.present THEN [ov EXCEPT !.content = val] ELSE ov

\* A hiding that removes the overlay and keeps the suggestion.
hideSuggestionOverlayOnly(st, ov) == [state |-> st, overlay |-> remove(ov)]

\* A hiding that empties the suggestion and keeps the overlay.
hideSuggestionStateOnly(st, ov) == [state |-> [st EXCEPT !.suggestion = ""], overlay |-> ov]

\* "Hide suggestion if input doesn't match": the state record and the overlay.
hideSuggestion(st, ov) == [state |-> [st EXCEPT !.suggestion = ""], overlay |-> remove(ov)]

\* setDebounceTimer(element, setTimeout(...)): the callback captures userText.
\* A pending timer is its id, that text, and (history) whether no input event
\* came since it was set.
setDebounceTimer(tms, userText, fresh) ==
    tms \cup {[id |-> fresh, text |-> userText, quiet |-> TRUE]}

\* handleInput(event, element): val is element.value, fresh the id that
\* setTimeout returns.
handleInput(st, ov, tms, h, val, ev, fresh) ==
    LET userText == Trim(val)
        st1 == [st EXCEPT !.userText = userText]
        tms1 == clearDebounceTimer(tms, h)
        hidden == hideSuggestion(st1, ov)
    IN  IF ~ev.hasData THEN Outcome(st, ov, tms, h, "ignored")
        ELSE IF ~isValidInput(userText)
        THEN Outcome([st1 EXCEPT !.suggestion = ""], remove(ov), tms, h, "invalid")
        ELSE IF st1.suggestion # "" /\ ev.data # ""
                    /\ matchesSuggestion(st1.suggestion, ev.data)
        THEN LET rest == remainingSuggestion(st1.suggestion, ev.data)
             IN  Outcome([st1 EXCEPT !.suggestion = rest],
                         createOrUpdate(ov, val, rest), tms1, h, "reconcile")
        ELSE IF st1.suggestion # "" /\ ev.data = " "
        THEN Outcome(st1, adjustForSpace(ov, val), tms1, h, "space")
        ELSE IF st1.suggestion # "" /\ ev.data # ""
        THEN Outcome(hidden.state, hidden.overlay,
                     setDebounceTimer(tms1, userText, fresh), fresh, "mismatch")
        ELSE Outcome(st1, ov, setDebounceTimer(tms1, userText, fresh), fresh, "schedule")

\* An acceptSuggestion that builds on the trimmed text of the last input event
\* instead of element.value.
acceptSuggestionFromUserText(st, ov, val) ==
    IF st.suggestion = "" THEN [state |-> st, overlay |-> ov, value |-> val, done |-> FALSE]
    ELSE [state |-> [st EXCEPT !.originalText = st.userText, !.suggestion = ""],
          overlay |-> remove(ov),
          value |-> st.userText \o st.suggestion,
          done |-> TRUE]

\* An acceptSuggestion that keeps the originalText of an earlier accept.
acceptSuggestionKeepFirst(st, ov, val) ==
    IF st.suggestion = "" THEN [state |-> st, overlay |-> ov, value |-> val, done |-> FALSE]
    ELSE [state |-> [st EXCEPT !.originalText = IF @ = "" THEN val ELSE @,
                               !.suggestion = ""],
          overlay |-> remove(ov),
          value |-> val \o st.suggestion,
          done |-> TRUE]

\* acceptSuggestion(element), up to its dispatch of the input event.
acceptSuggestion(st, ov, val) ==
    IF st.suggestion = "" THEN [state |-> st, overlay |-> ov, value |-> val, done |-> FALSE]
    ELSE [state |-> [st EXCEPT !.originalText = val, !.suggestion = ""],
          overlay |-> remove(ov),
          value |-> val \o st.suggestion,
          done |-> TRUE]

\* An undoSuggestion without the test of originalText.
undoSuggestionAlways(st, ov, val) ==
    [state |-> [st EXCEPT !.originalText = "", !.suggestion = ""],
     overlay |-> remove(ov),
     value |-> st.originalText,
     done |-> TRUE]

\* undoSuggestion(element), up to its dispatch of the input event.
undoSuggestion(st, ov, val) ==
    IF st.originalText = "" THEN [state |-> st, overlay |-> ov, value |-> val, done |-> FALSE]
    ELSE [state |-> [st EXCEPT !.originalText = "", !.suggestion = ""],
          overlay |-> remove(ov),
          value |-> st.originalText,
          done |-> TRUE]

\* getAISuggestion: every failure inside its try block ends in its catch.
getAISuggestionTry(result) ==
    IF result.rejected THEN Throw("sendMessage rejected")
    ELSE IF result.defined /\ result.response.suggestion # ""
    THEN Return(result.response.suggestion)
    ELSE Throw("Invalid response format")

getAISuggestion(result) ==
    LET r == getAISuggestionTry(result)
    IN  IF r.threw THEN Return("") ELSE r

\* A requestSuggestion that does not look at cachedResponse.
requestSuggestionStartNoCache(st, ov, val, userText) ==
    IF userText = ""
    THEN [state |-> [st EXCEPT !.suggestion = ""], overlay |-> remove(ov), branch |-> "clear"]
    ELSE [state |-> st, overlay |-> ov, branch |-> "send"]

\* requestSuggestion before its await: "clear" for an empty text, "cached"
\* when the text is the cached one, "send" otherwise.
requestSuggestionStart(st, ov, val, userText) ==
    IF userText = ""
    THEN [state |-> [st EXCEPT !.suggestion = ""], overlay |-> remove(ov), branch |-> "clear"]
    ELSE IF st.cachedResponse = Text(userText)
    THEN [state |-> st, overlay |-> createOrUpdate(ov, val, st.suggestion),
          branch |-> "cached"]
    ELSE [state |-> st, overlay |-> ov, branch |-> "send"]

\* A requestSuggestion that stores the suggestion without the text it is for.
requestSuggestionResumeNoCache(st, ov, val, userText, r) ==
    IF ~r.threw /\ r.value # ""
    THEN [state |-> [st EXCEPT !.suggestion = r.value],
          overlay |-> createOrUpdate(ov, val, r.value),
          branch |-> "suggestion", threw |-> FALSE]
    ELSE [state |-> [st EXCEPT !.suggestion = ""], overlay |-> remove(ov),
          branch |-> "empty", threw |-> FALSE]

\* A requestSuggestion that leaves the field as it is when no suggestion came.
requestSuggestionResumeKeep(st, ov, val, userText, r) ==
    IF ~r.threw /\ r.value # ""
    THEN [state |-> [st EXCEPT !.suggestion = r.value, !.cachedResponse = Text(userText)],
          overlay |-> createOrUpdate(ov, val, r.value),
          branch |-> "suggestion", threw |-> FALSE]
    ELSE [state |-> st, overlay |-> ov, branch |-> "empty", threw |-> FALSE]

\* requestSuggestion after its await, r being what getAISuggestion came to.
requestSuggestionResume(st, ov, val, userText, r) ==
    IF r.threw
    THEN [state |-> [st EXCEPT !.suggestion = ""], overlay |-> remove(ov),
          branch |-> "caught", threw |-> FALSE]
    ELSE IF r.value # ""
    THEN [state |-> [st EXCEPT !.suggestion = r.value, !.cachedResponse = Text(userText)],
          overlay |-> createOrUpdate(ov, val, r.value),
          branch |-> "suggestion", threw |-> FALSE]
    ELSE [state |-> [st EXCEPT !.suggestion = ""], overlay |-> remove(ov),
          branch |-> "empty", threw |-> FALSE]

(***************************************************************************)
(* The state of the page.                                                  *)
(***************************************************************************)
VARIABLES
    document,   \* the fields that are in the document
    tracked,    \* the fields AutoTab has attached to (inputStateManager.states)
    value,      \* element.value of each field
    focus,      \* the field that has the focus, or NoField
    state,      \* the state record of each field
    handle,     \* inputStateManager.debounceTimers: the last timer id set, 0 if none
    timers,     \* the pending timeouts of each field
    requests,   \* the bag of generate_suggestion calls of each field in flight
    overlay,    \* ghostOverlayManager.overlays and the overlay elements
    last        \* history: the event handled last: what it was, the field, the
                \* branch its handler took, and the data of an input event, the
                \* field's value before a key, the outcome of a call

vars == <<document, tracked, value, focus, state, handle, timers, requests, overlay, last>>

\* The user edits a field only while its value is this long at least.
MinLen == MIN_TEXT_LENGTH - 1

Event(op, f, branch, data) == [op |-> op, field |-> f, branch |-> branch, data |-> data]

\* setTimeout returns an id that no pending timer has.  The model takes the
\* least id that no other pending timer has and that is not the handle stored
\* for another field; the handlers of f cancel the timer of f's own handle
\* before they set a new one.
UsedIds(f) ==
    UNION {{t.id : t \in timers[g]} : g \in Fields \ {f}}
        \cup {t.id : t \in clearDebounceTimer(timers[f], handle[f])}
        \cup {handle[g] : g \in Fields \ {f}}
\* A setTimeout whose ids are new among the timers of the one field only.
FreshIdOwn(f) ==
    LET own == {t.id : t \in clearDebounceTimer(timers[f], handle[f])}
    IN  CHOOSE i \in 1..(Cardinality(own) + 1) :
            i \notin own /\ \A j \in 1..(i - 1) : j \in own

FreshId(f) == CHOOSE i \in 1..(Cardinality(UsedIds(f)) + 1) :
                  i \notin UsedIds(f) /\ \A j \in 1..(i - 1) : j \in UsedIds(f)

\* The user edits the text the field started with: a text that begins with an
\* initial value and is MinLen to MaxLen characters long.
Editable(val) ==
    /\ Len(val) >= MinLen
    /\ Len(val) <= MaxLen
    /\ \E v \in InitValues \cup GateValues : StartsWith(val, v)

\* History: an input event came while these timers were pending.
Disturbed(tms) == {[t EXCEPT !.quiet = FALSE] : t \in tms}

TypeOK ==
    /\ document \subseteq Fields
    /\ tracked \subseteq Fields
    /\ focus \in tracked \cup {NoField}
    /\ \A f \in Fields :
        /\ handle[f] \in Nat
        /\ \A t \in timers[f] : t.id \in Nat \ {0} /\ t.quiet \in BOOLEAN
        /\ BagCardinality(requests[f]) <= MaxInflight
        /\ overlay[f].present \in BOOLEAN
        /\ overlay[f].attached \in Nat

InitWith(attached, values) ==
    /\ document = attached
    /\ tracked = attached
    /\ value \in {v \in [Fields -> values \cup {""}] :
                      \A f \in Fields : v[f] = "" <=> f \notin attached}
    /\ focus = NoField
    /\ state = [f \in Fields |-> getState(value[f])]
    /\ handle = [f \in Fields |-> 0]
    /\ timers = [f \in Fields |-> {}]
    /\ requests = [f \in Fields |-> EmptyBag]
    /\ overlay = [f \in Fields |-> NoOverlay]
    /\ last = Event("init", NoField, "", "")

\* AutoTab.init on a page with one text field.
Init == InitWith({1}, InitValues)

\* AutoTab.init on a page whose text field holds digits only, or symbols only.
InitGate == InitWith({1}, GateValues)

(***************************************************************************)
(* The input events of the user.  The browser has changed element.value    *)
(* when the handler runs.                                                  *)
(***************************************************************************)
\* The branches of handleInput that reach its clearDebounceTimer.
Clears(branch) == branch \notin {"ignored", "invalid"}

\* clearTimeout cancels the timer of the id it is given, whichever field set
\* that timer: the timers of a window share one space of ids.
InputEvent(f, val, ev, op) ==
    LET o == handleInput(state[f], overlay[f], Disturbed(timers[f]), handle[f],
                         val, ev, FreshId(f))
    IN  /\ value' = [value EXCEPT ![f] = val]
        /\ state' = [state EXCEPT ![f] = o.state]
        /\ overlay' = [overlay EXCEPT ![f] = o.overlay]
        /\ timers' = [g \in Fields |->
                          IF g = f THEN o.timers
                          ELSE IF Clears(o.branch)
                               THEN clearDebounceTimer(timers[g], handle[f])
                               ELSE timers[g]]
        /\ handle' = [handle EXCEPT ![f] = o.handle]
        /\ last' = Event(op, f, o.branch, ev.data)
        /\ UNCHANGED <<document, tracked, focus, requests>>

\* The user types, pastes or has autocorrected the text p at the end.
Insert(f, p) ==
    /\ focus = f
    /\ Editable(value[f])
    /\ Len(value[f]) + Len(p) <= MaxLen
    /\ InputEvent(f, value[f] \o p, DataEvent(p), "insert")

\* The user selects the last character and types p over it.
Replace(f, p) ==
    /\ focus = f
    /\ Editable(value[f])
    /\ Len(value[f]) > MinLen
    /\ Len(value[f]) - 1 + Len(p) <= MaxLen
    /\ InputEvent(f, SubSeq(value[f], 1, Len(value[f]) - 1) \o p, DataEvent(p), "replace")

\* Backspace: the event of a deletion has no data.
Delete(f) ==
    /\ focus = f
    /\ Editable(value[f])
    /\ Len(value[f]) > MinLen
    /\ InputEvent(f, SubSeq(value[f], 1, Len(value[f]) - 1), NoDataEvent, "delete")

\* The user selects the whole text and deletes it.
DeleteAll(f) ==
    /\ focus = f
    /\ value[f] # ""
    /\ InputEvent(f, "", NoDataEvent, "deleteAll")

(***************************************************************************)
(* Keys, focus and blur.                                                   *)
(***************************************************************************)
Key(k, ctrl, meta) == [key |-> k, ctrlKey |-> ctrl, metaKey |-> meta]
Keys == {Key("Tab", FALSE, FALSE), Key("z", TRUE, FALSE), Key("z", FALSE, TRUE)}

\* A handleKeydown that takes every Tab for itself, as the function-based
\* content script does.
handleKeydownEveryTab(st, ov, tms, h, val, k, fresh) ==
    LET a == IF k.key = "Tab" THEN acceptSuggestion(st, ov, val)
             ELSE undoSuggestion(st, ov, val)
        handled == k.key = "Tab" \/ (k.ctrlKey /\ k.key \in {"z", "Z"})
        o == handleInput(a.state, a.overlay, Disturbed(tms), h, a.value, NoDataEvent, fresh)
    IN  IF ~handled
        THEN [state |-> st, overlay |-> ov, timers |-> tms, handle |-> h, value |-> val,
              branch |-> "default", prevented |-> FALSE]
        ELSE IF ~a.done
        THEN [state |-> st, overlay |-> ov, timers |-> tms, handle |-> h, value |-> val,
              branch |-> "nothing", prevented |-> TRUE]
        ELSE [state |-> o.state, overlay |-> o.overlay, timers |-> o.timers,
              handle |-> o.handle, value |-> a.value,
              branch |-> IF k.key = "Tab" THEN "accept" ELSE "undo",
              prevented |-> TRUE]

\* handleKeydown(event, element), with the input event that acceptSuggestion
\* and undoSuggestion dispatch: a plain Event, which has no data.
handleKeydown(st, ov, tms, h, val, k, fresh) ==
    LET a == IF k.key = "Tab" /\ st.suggestion # "" THEN acceptSuggestion(st, ov, val)
             ELSE undoSuggestion(st, ov, val)
        handled == (k.key = "Tab" /\ st.suggestion # "")
                       \/ (k.ctrlKey /\ k.key \in {"z", "Z"})
        o == handleInput(a.state, a.overlay, Disturbed(tms), h, a.value, NoDataEvent, fresh)
    IN  IF ~handled
        THEN [state |-> st, overlay |-> ov, timers |-> tms, handle |-> h, value |-> val,
              branch |-> "default", prevented |-> FALSE]
        ELSE IF ~a.done
        THEN [state |-> st, overlay |-> ov, timers |-> tms, handle |-> h, value |-> val,
              branch |-> "nothing", prevented |-> TRUE]
        ELSE [state |-> o.state, overlay |-> o.overlay, timers |-> o.timers,
              handle |-> o.handle, value |-> a.value,
              branch |-> IF k.key = "Tab" THEN "accept" ELSE "undo",
              prevented |-> TRUE]

Keydown(f, k) ==
    /\ focus = f
    /\ LET o == handleKeydown(state[f], overlay[f], timers[f], handle[f], value[f],
                              k, FreshId(f))
       IN  /\ value' = [value EXCEPT ![f] = o.value]
           /\ state' = [state EXCEPT ![f] = o.state]
           /\ overlay' = [overlay EXCEPT ![f] = o.overlay]
           /\ timers' = [timers EXCEPT ![f] = o.timers]
           /\ handle' = [handle EXCEPT ![f] = o.handle]
           /\ last' = Event(IF k.key = "Tab" THEN "tab" ELSE IF k.ctrlKey THEN "ctrl-z" ELSE "meta-z",
                            f, o.branch, value[f])
    /\ UNCHANGED <<document, tracked, focus, requests>>

\* A handleFocus without the test of the suggestion.
handleFocusAlways(st, ov, val) == createOrUpdate(ov, val, st.suggestion)

\* handleFocus(element)
handleFocus(st, ov, val) ==
    IF st.suggestion # "" THEN createOrUpdate(ov, val, st.suggestion) ELSE ov

\* handleBlur(element)
handleBlur(ov) == remove(ov)

Focus(f) ==
    /\ f \in tracked
    /\ f \in document
    /\ focus = NoField
    /\ focus' = f
    /\ overlay' = [overlay EXCEPT ![f] = handleFocus(state[f], overlay[f], value[f])]
    /\ last' = Event("focus", f, "", "")
    /\ UNCHANGED <<document, tracked, value, state, handle, timers, requests>>

Blur(f) ==
    /\ focus = f
    /\ focus' = NoField
    /\ overlay' = [overlay EXCEPT ![f] = handleBlur(overlay[f])]
    /\ last' = Event("blur", f, "", "")
    /\ UNCHANGED <<document, tracked, value, state, handle, timers, requests>>

(***************************************************************************)
(* The debounce timer fires, the background answers, the answer arrives.   *)
(***************************************************************************)
\* A call in flight: the text sent.  The content script sends every message
\* with a context.
Request(text) == [text |-> text, hasContext |-> TRUE]

\* The callback of setTimeout: requestSuggestion(element, userText) up to its
\* await.  The model lets it send while fewer than `inflight` calls of the
\* field are in flight.
FireUpTo(f, t, inflight) ==
    /\ t \in timers[f]
    /\ LET o == requestSuggestionStart(state[f], overlay[f], value[f], t.text)
       IN  /\ o.branch = "send" => BagCardinality(requests[f]) < inflight
           /\ state' = [state EXCEPT ![f] = o.state]
           /\ overlay' = [overlay EXCEPT ![f] = o.overlay]
           /\ requests' = [requests EXCEPT ![f] =
                  IF o.branch = "send" THEN @ (+) SetToBag({Request(t.text)}) ELSE @]
           /\ last' = Event("fire", f, o.branch, "")
    /\ timers' = [timers EXCEPT ![f] = @ \ {t}]
    /\ UNCHANGED <<document, tracked, value, focus, handle>>

Fire(f, t) == FireUpTo(f, t, MaxInflight)

\* requestSuggestion resumes with what sendMessage settled with.
Settle(f, req, result, op, how) ==
    LET o == requestSuggestionResume(state[f], overlay[f], value[f], req.text,
                                     getAISuggestion(result))
    IN  /\ state' = [state EXCEPT ![f] = o.state]
        /\ overlay' = [overlay EXCEPT ![f] = o.overlay]
        /\ requests' = [requests EXCEPT ![f] = @ (-) SetToBag({req})]
        /\ last' = Event(op, f, IF o.threw THEN "threw" ELSE o.branch, how)
        /\ UNCHANGED <<document, tracked, value, focus, handle, timers>>

\* The HTTP call of the background ends, the listener responds and the
\* response arrives in the content script.
Deliver(f, req, outcome) ==
    /\ BagIn(req, requests[f])
    /\ Settle(f, req, Resolved(onMessage(req.text, req.hasContext, outcome)),
              "deliver", outcome.kind)

\* The call ends without a suggestion response: sendMessage rejects, resolves
\* with undefined, or resolves with {error: message}.
ChannelFail(f, req, result) ==
    /\ BagIn(req, requests[f])
    /\ Settle(f, req, result, "channelFail",
              IF result.rejected THEN "rejected"
              ELSE IF ~result.defined THEN "undefined" ELSE "error")

Next ==
    \/ \E f \in tracked, p \in Inserted : Insert(f, p)
    \/ \E f \in tracked, p \in Inserted : Replace(f, p)
    \/ \E f \in tracked : Delete(f)
    \/ \E f \in tracked : DeleteAll(f)
    \/ \E f \in tracked, k \in Keys : Keydown(f, k)
    \/ \E f \in tracked : Focus(f)
    \/ \E f \in tracked : Blur(f)
    \/ \E f \in tracked : \E t \in timers[f] : Fire(f, t)
    \/ \E f \in tracked : \E req \in BagToSet(requests[f]), outcome \in ApiOutcomes :
           Deliver(f, req, outcome)
    \/ \E f \in tracked : \E req \in BagToSet(requests[f]), result \in ChannelResults :
           ChannelFail(f, req, result)

Spec == Init /\ [][Next]_vars

SpecGate == InitGate /\ [][Next]_vars

(***************************************************************************)
(* The scenario of the letter: the user types a sentence into an empty     *)
(* field, pauses, gets a suggestion, types its first word, accepts, undoes.*)
(***************************************************************************)
ScenarioTyped == "I am writing a letter to"
ScenarioSuggestion == " my manager about the project"
ScenarioWord == " my"
ScenarioText == ScenarioTyped \o ScenarioWord

\* AutoTab.init on a page whose text field is empty.
InitScenario ==
    /\ document = {1}
    /\ tracked = {1}
    /\ value = [f \in Fields |-> ""]
    /\ focus = NoField
    /\ state = [f \in Fields |-> getState(value[f])]
    /\ handle = [f \in Fields |-> 0]
    /\ timers = [f \in Fields |-> {}]
    /\ requests = [f \in Fields |-> EmptyBag]
    /\ overlay = [f \in Fields |-> NoOverlay]
    /\ last = Event("init", NoField, "", "")

\* The user types the next character of the sentence; the first word of the
\* suggestion only once ghost text shows.
ScenarioType(f) ==
    /\ focus = f
    /\ Len(value[f]) < Len(ScenarioText)
    /\ StartsWith(ScenarioText, value[f])
    /\ Len(value[f]) >= Len(ScenarioTyped) => state[f].suggestion # ""
    /\ LET c == Char(ScenarioText, Len(value[f]) + 1)
       IN  InputEvent(f, value[f] \o c, DataEvent(c), "insert")

\* The user types without a pause of 1500 ms: the timer fires only in the
\* pause after the sentence.
ScenarioFire(f, t) == value[f] = ScenarioTyped /\ Fire(f, t)

\* A key: the user accepts the ghost text only after typing its first word.
ScenarioKey(f, k) ==
    /\ (k.key = "Tab" /\ state[f].suggestion # "") => value[f] = ScenarioText
    /\ Keydown(f, k)

\* The API answers with the suggestion of the scenario.
ScenarioDeliver(f, req) == Deliver(f, req, [kind |-> "ok", text |-> ScenarioSuggestion])

\* sendMessage resolves with the suggestion of the scenario as it is.
ScenarioReceive(f, req) ==
    /\ BagIn(req, requests[f])
    /\ Settle(f, req, Resolved(SuggestionResponse(ScenarioSuggestion)), "receive", "ok")

NextScenario ==
    \/ \E f \in tracked : Focus(f)
    \/ \E f \in tracked : ScenarioType(f)
    \/ \E f \in tracked, k \in Keys : ScenarioKey(f, k)
    \/ \E f \in tracked : \E t \in timers[f] : ScenarioFire(f, t)
    \/ \E f \in tracked : \E req \in BagToSet(requests[f]) : ScenarioDeliver(f, req)
    \/ \E f \in tracked : \E req \in BagToSet(requests[f]) : ScenarioReceive(f, req)

SpecScenario == InitScenario /\ [][NextScenario]_vars

(***************************************************************************)
(* A slow background: the user goes on typing while calls are in flight.   *)
(* The user only appends text, so of two calls of a field the one with the *)
(* longer text was sent later.                                             *)
(***************************************************************************)
RaceFire(f, t) == FireUpTo(f, t, MaxRace)

NextRace ==
    \/ \E f \in tracked : Focus(f)
    \/ \E f \in tracked : Blur(f)
    \/ \E f \in tracked, p \in Inserted : Insert(f, p)
    \/ \E f \in tracked : \E t \in timers[f] : RaceFire(f, t)
    \/ \E f \in tracked : \E req \in BagToSet(requests[f]), outcome \in ApiOutcomes :
           Deliver(f, req, outcome)
    \/ \E f \in tracked : \E req \in BagToSet(requests[f]), result \in ChannelResults :
           ChannelFail(f, req, result)

SpecRace == Init /\ [][NextRace]_vars

(***************************************************************************)
(* Timers fire and calls end: every pending timer fires after its delay    *)
(* and, as the HTTP call of the background is taken to settle, every call  *)
(* in flight is answered.                                                  *)
(***************************************************************************)
\* The responses of the listener to each outcome of the HTTP call.  The text
\* of the message goes into the prompt only: the response does not depend on
\* it.
Answers == {[kind |-> o.kind, response |-> onMessage("", TRUE, o)] : o \in ApiOutcomes}

\* Deliver, with the response of the listener taken from Answers.
Answer(f, req, a) ==
    /\ BagIn(req, requests[f])
    /\ Settle(f, req, Resolved(a.response), "deliver", a.kind)

NextLive ==
    \/ \E f \in tracked : Focus(f)
    \/ \E f \in tracked : Blur(f)
    \/ \E f \in tracked, p \in Inserted : Insert(f, p)
    \/ \E f \in tracked : Replace(f, "j")
    \/ \E f \in tracked : \E t \in timers[f] : Fire(f, t)
    \/ \E f \in tracked : \E req \in BagToSet(requests[f]), a \in Answers : Answer(f, req, a)

FairLive ==
    \A f \in Fields :
        /\ WF_vars(\E t \in timers[f] : Fire(f, t))
        /\ WF_vars(\E req \in BagToSet(requests[f]), a \in Answers : Answer(f, req, a))

SpecLive == Init /\ [][NextLive]_vars /\ FairLive

(***************************************************************************)
(* The first listener of the background (background.js lines 90-109): it   *)
(* calls getGeminiResponse with the text of the message and responds from  *)
(* the then and the catch of the promise.                                  *)
(***************************************************************************)
\* A listener whose catch does not respond and whose then responds only when
\* the HTTP call succeeded.
sendResponsesOnSuccess(text, outcome) ==
    IF outcome.kind = "ok" THEN <<SuggestionResponse(getGeminiResponse(text, outcome))>>
    ELSE <<>>

\* The calls of sendResponse for one message, in their order: then responds
\* with what getGeminiResponse resolved with, catch with an empty suggestion.
sendResponses(text, outcome) ==
    LET r == Return(getGeminiResponse(text, outcome))
    IN  IF r.threw THEN <<SuggestionResponse("")>> ELSE <<SuggestionResponse(r.value)>>

\* How often the listener responded to a message.
Times(n) == IF n = 0 THEN "never" ELSE IF n = 1 THEN "once" ELSE "again"

\* What the listener does with each outcome of the HTTP call.  The text of
\* the message goes into the prompt only: the responses do not depend on it.
FirstAnswers == {sendResponses("", outcome) : outcome \in ApiOutcomes}

\* The HTTP call ends and the promise chain of the listener runs.  The first
\* response settles sendMessage in the content script, a later one is
\* dropped by the channel; with no response the content script waits on.
Respond(f, req, rs) ==
    /\ BagIn(req, requests[f])
    /\ IF rs = <<>>
       THEN /\ requests' = [requests EXCEPT ![f] = @ (-) SetToBag({req})]
            /\ last' = Event("respond", f, "waiting", Times(0))
            /\ UNCHANGED <<document, tracked, value, focus, state, handle, timers,
                           overlay>>
       ELSE Settle(f, req, Resolved(rs[1]), "respond", Times(Len(rs)))

NextFirst ==
    \/ \E f \in tracked : Focus(f)
    \/ \E f \in tracked : Blur(f)
    \/ \E f \in tracked, p \in Inserted : Insert(f, p)
    \/ \E f \in tracked : \E t \in timers[f] : Fire(f, t)
    \/ \E f \in tracked : \E req \in BagToSet(requests[f]), rs \in FirstAnswers :
           Respond(f, req, rs)

\* The HTTP call of every message settles.
FairFirst ==
    \A f \in Fields :
        WF_vars(\E req \in BagToSet(requests[f]), rs \in FirstAnswers : Respond(f, req, rs))

SpecFirst == Init /\ [][NextFirst]_vars /\ FairFirst

(***************************************************************************)
(* A page that changes: a script of the page inserts a second text field   *)
(* and takes fields out of the document.  Both fields hold a text when the *)
(* content script first sees them.                                         *)
(***************************************************************************)
PageInserted == {"j"}
PageOutcomes == {[kind |-> "ok", text |-> " j j\n"], [kind |-> "http_error", text |-> ""]}

\* AutoTab.init on a page with field 1; field 2 is not in the document yet.
InitPage ==
    /\ document = {1}
    /\ tracked = {1}
    /\ value \in [Fields -> InitValues]
    /\ focus = NoField
    /\ state = [f \in Fields |-> getState(value[f])]
    /\ handle = [f \in Fields |-> 0]
    /\ timers = [f \in Fields |-> {}]
    /\ requests = [f \in Fields |-> EmptyBag]
    /\ overlay = [f \in Fields |-> NoOverlay]
    /\ last = Event("init", NoField, "", "")

\* An attach without the test of inputStateManager.states: getState keeps a
\* state record that exists, attachEventListeners adds the handlers again.
attachAlways(has, st, val) ==
    [state |-> IF has THEN st ELSE getState(val), installs |-> TRUE]

\* attach(element): has is inputStateManager.states.has(element); installs
\* tells whether attachEventListeners was called.
attach(has, st, val) ==
    IF has THEN [state |-> st, installs |-> FALSE]
    ELSE [state |-> getState(val), installs |-> TRUE]

\* The page inserts field f, as the inserted node itself or somewhere inside
\* an inserted subtree.  The callback of the MutationObserver attaches to an
\* added node that is a text field; it does not look into an added node.
AddNode(f, nested) ==
    LET a == attach(f \in tracked, state[f], value[f])
    IN  /\ f \notin document
        /\ document' = document \cup {f}
        /\ tracked' = IF nested THEN tracked ELSE tracked \cup {f}
        /\ state' = IF nested THEN state ELSE [state EXCEPT ![f] = a.state]
        /\ last' = Event("add", f, IF nested THEN "nested"
                                   ELSE IF a.installs THEN "attach" ELSE "known", "")
        /\ UNCHANGED <<value, focus, handle, timers, requests, overlay>>

\* The page takes field f out of the document.  No code of the content script
\* runs for a removed node; whether a field that has the focus gets a blur
\* event when it is removed depends on the browser.
RemoveNode(f, blurs) ==
    /\ f \in document
    /\ blurs => focus = f
    /\ document' = document \ {f}
    /\ focus' = IF focus = f THEN NoField ELSE focus
    /\ overlay' = IF blurs THEN [overlay EXCEPT ![f] = handleBlur(overlay[f])] ELSE overlay
    /\ last' = Event("remove", f, IF blurs THEN "blur" ELSE "", "")
    /\ UNCHANGED <<tracked, value, state, handle, timers, requests>>

NextPage ==
    \/ \E f \in Fields, nested \in BOOLEAN : AddNode(f, nested)
    \/ \E f \in Fields, blurs \in BOOLEAN : RemoveNode(f, blurs)
    \/ \E f \in tracked : Focus(f)
    \/ \E f \in tracked : Blur(f)
    \/ \E f \in tracked, p \in PageInserted : Insert(f, p)
    \/ \E f \in tracked : \E t \in timers[f] : Fire(f, t)
    \/ \E f \in tracked : \E req \in BagToSet(requests[f]), outcome \in PageOutcomes :
           Deliver(f, req, outcome)

SpecPage == InitPage /\ [][NextPage]_vars

(***************************************************************************)
(* The properties.  A property of one step of the program is a formula     *)
(* [][A => P']_vars: P holds after every step A.                           *)
(***************************************************************************)
Tab == Key("Tab", FALSE, FALSE)
CtrlZ == Key("z", TRUE, FALSE)

\* The user inserts p into field f, at the end or over the last character.
Insertion(f, p) == Insert(f, p) \/ Replace(f, p)

\* An input event of the user on field f.
UserInput(f) == (\E p \in Inserted : Insertion(f, p)) \/ Delete(f) \/ DeleteAll(f)

\* C1. Reconciliation: when the field has a non-empty suggestion S and the
\* user inserts a non-empty prefix p of S (one character or several) and the
\* trimmed text of the field is valid, then after the event the suggestion is
\* S without its first Len(p) characters, the overlay shows that remainder
\* after the field's value, no timer is pending and no message was sent.
C1_Reconciliation ==
    [][\A f \in Fields, p \in Inserted :
          (/\ Insertion(f, p)
           /\ state[f].suggestion # ""
           /\ p # ""
           /\ StartsWith(state[f].suggestion, p)
           /\ isValidInput(Trim(value'[f])))
          => (/\ state'[f].suggestion
                     = SubSeq(state[f].suggestion, Len(p) + 1, Len(state[f].suggestion))
              /\ overlay'[f].present
              /\ overlay'[f].ghost = state'[f].suggestion
              /\ overlay'[f].content = value'[f]
              /\ timers'[f] = {}
              /\ requests' = requests)]_vars

\* C1: the suggestion "j j" was showing and the two characters "j " came in
\* one insertion: "j" is left and shown.
C1_Witness ==
    /\ last = Event("insert", 1, "reconcile", "j ")
    /\ state[1].suggestion = "j"
    /\ overlay[1].present
    /\ overlay[1].ghost = "j"

\* C2. Accept: Tab on a field with value V and a non-empty suggestion S makes
\* the value V followed by S, empties the suggestion, removes the overlay and
\* stores V as originalText.
C2_Accept ==
    [][\A f \in Fields :
          (Keydown(f, Tab) /\ state[f].suggestion # "")
          => (/\ value'[f] = value[f] \o state[f].suggestion
              /\ state'[f].suggestion = ""
              /\ ~overlay'[f].present
              /\ state'[f].originalText = value[f])]_vars

\* C2: Tab has accepted "j j" on a value that ends with a space.
C2_Witness ==
    /\ last = Event("tab", 1, "accept", "abcdefghij ")
    /\ value[1] = "abcdefghij j j"
    /\ state[1].originalText = "abcdefghij "
    /\ state[1].suggestion = ""
    /\ ~overlay[1].present

\* C3. Accept/Undo round trip: Ctrl+Z right after an accepting Tab gives the
\* field the value it had before the Tab, and leaves the suggestion empty,
\* originalText empty and no overlay.
C3_RoundTrip ==
    [][\A f \in Fields :
          (/\ last.op = "tab"
           /\ last.branch = "accept"
           /\ last.field = f
           /\ Keydown(f, CtrlZ))
          => (/\ value'[f] = last.data
              /\ state'[f].suggestion = ""
              /\ state'[f].originalText = ""
              /\ ~overlay'[f].present)]_vars

\* C4. Validation gate: after an input event of the user that leaves the
\* trimmed text shorter than 10 characters, or digits only, or symbols only,
\* no timer set by that event is pending, the suggestion is empty and the
\* field has no overlay.
C4_ValidationGate ==
    [][\A f \in Fields :
          (UserInput(f) /\ ~isValidInputFunction(Trim(value'[f])))
          => (/\ \A t \in timers'[f] : ~t.quiet
              /\ requests' = requests
              /\ state'[f].suggestion = ""
              /\ ~overlay'[f].present)]_vars

\* C5. Debounce collapse: a field has at most one timer pending, and a timer
\* that fires and sends a request is one that no input event has followed
\* since it was set: the quiet period after the last event has passed.
C5_DebounceCollapse ==
    [][\A f \in Fields :
          /\ Cardinality(timers'[f]) <= 1
          /\ \A t \in timers[f] :
                 (Fire(f, t) /\ requests'[f] # requests[f]) => t.quiet]_vars

\* C6. Every input event of the user on a field cancels the timer that was
\* pending: the timers pending after the event were set by the event.
C6_InputCancelsTimer ==
    [][\A f \in Fields : UserInput(f) => \A t \in timers'[f] : t.quiet]_vars

\* C7. Cache: when the timer fires for a text that is the field's
\* cachedResponse, no message is sent, the state record stays as it is and
\* the overlay shows the stored suggestion.
C7_Cache ==
    [][\A f \in Fields : \A t \in timers[f] :
          (Fire(f, t) /\ state[f].cachedResponse = Text(t.text))
          => (/\ requests' = requests
              /\ state'[f] = state[f]
              /\ overlay'[f].present
              /\ overlay'[f].ghost = state[f].suggestion)]_vars

\* C7: the timer fired for the cached text and the stored suggestion shows.
C7_Witness ==
    /\ last = Event("fire", 1, "cached", "")
    /\ state[1].cachedResponse = Text("abcdefghij")
    /\ state[1].suggestion = "j j"
    /\ overlay[1].ghost = "j j"
    /\ requests[1] = EmptyBag

\* The case of C8: the field has a non-empty suggestion, the user inserts a
\* non-empty p that does not begin it, and the trimmed text is valid.
Mismatch(f, p) ==
    /\ Insertion(f, p)
    /\ state[f].suggestion # ""
    /\ p # ""
    /\ ~StartsWith(state[f].suggestion, p)
    /\ isValidInput(Trim(value'[f]))

\* After a mismatch: no suggestion, no overlay, and a timer for the new text.
Restarted(f) ==
    /\ state[f].suggestion = ""
    /\ ~overlay[f].present
    /\ \E t \in timers[f] : t.quiet /\ t.text = Trim(value[f])

Failed(result) ==
    \/ result.rejected
    \/ ~result.defined
    \/ ~result.response.hasSuggestion
    \/ result.response.suggestion = ""

\* C9. A request that fails (sendMessage rejects, the response is missing, is
\* {error: message}, or has an empty suggestion) leaves the field without
\* suggestion and without overlay, leaves cachedResponse as it was, and
\* requestSuggestion ends without an exception.
C9_FailedRequest ==
    [][\A f \in Fields : \A req \in BagToSet(requests[f]) :
          (/\ requests'[f] = requests[f] (-) SetToBag({req})
           /\ \/ \E result \in ChannelResults : ChannelFail(f, req, result)
              \/ \E outcome \in ApiOutcomes :
                     /\ Failed(Resolved(onMessage(req.text, req.hasContext, outcome)))
                     /\ Deliver(f, req, outcome))
          => (/\ state'[f].suggestion = ""
              /\ ~overlay'[f].present
              /\ state'[f].cachedResponse = state[f].cachedResponse
              /\ last'.branch \in {"caught", "empty"})]_vars

\* C9: a request sent after an earlier one had brought a suggestion was
\* rejected: the suggestion is gone, the cached text is the earlier one.
C9_Witness ==
    /\ last = Event("channelFail", 1, "empty", "rejected")
    /\ state[1].cachedResponse = Text("abcdefghij")
    /\ state[1].suggestion = ""
    /\ ~overlay[1].present

\* C10. When the HTTP call fails or its payload has no text, the response of
\* the background has no non-empty suggestion, and the field has no
\* suggestion and no overlay once the response has arrived.
C10_NoSuggestionOnFailure ==
    [][\A f \in Fields : \A req \in BagToSet(requests[f]) :
          \A outcome \in {o \in ApiOutcomes : o.kind # "ok"} :
              (requests'[f] = requests[f] (-) SetToBag({req}) /\ Deliver(f, req, outcome))
              => (/\ onMessage(req.text, req.hasContext, outcome).suggestion = ""
                  /\ state'[f].suggestion = ""
                  /\ ~overlay'[f].present)]_vars

\* C11. The scenario of the letter: the request sent after the pause carries
\* exactly the sentence typed; after each character of the first word of the
\* suggestion the suggestion is the rest of the sentence (" manager about
\* the project" after the word), no timer is pending and no request is in
\* flight; Tab then gives the whole sentence and Ctrl+Z
\* after it the sentence with the first word of the suggestion.
C11_Scenario ==
    /\ \A req \in BagToSet(requests[1]) : req.text = ScenarioTyped
    /\ (last.op = "insert" /\ Len(value[1]) > Len(ScenarioTyped))
           => (/\ value[1] \o state[1].suggestion
                      = "I am writing a letter to my manager about the project"
               /\ value[1] = ScenarioText
                      => state[1].suggestion = " manager about the project"
               /\ overlay[1].ghost = state[1].suggestion
               /\ timers[1] = {}
               /\ requests[1] = EmptyBag)
    /\ last = Event("tab", 1, "accept", ScenarioText)
           => value[1] = "I am writing a letter to my manager about the project"
    /\ (last.op = "ctrl-z" /\ last.branch = "undo"
            /\ last.data = "I am writing a letter to my manager about the project")
           => value[1] = "I am writing a letter to my"

\* C11: the scenario has run to its end, Ctrl+Z included.
C11_Witness ==
    /\ last = Event("ctrl-z", 1, "undo",
                    "I am writing a letter to my manager about the project")
    /\ value[1] = "I am writing a letter to my"
    /\ state[1].cachedResponse = Text(ScenarioTyped)
    /\ state[1].suggestion = ""
    /\ state[1].originalText = ""

\* C12. Overlay invariant: a field with a non-empty suggestion has exactly
\* one overlay element, a field with an empty suggestion has none.
C12_OverlayInvariant ==
    \A f \in Fields :
        /\ state[f].suggestion # "" => overlay[f].attached = 1
        /\ state[f].suggestion = "" => overlay[f].attached = 0

\* C13. A field has at most one pending timer: a step that sets a timer has
\* cancelled the one set before.
C13_OneTimer == \A f \in Fields : Cardinality(timers[f]) <= 1

\* C13: a second insertion came while the timer of the first was pending; the
\* one timer pending is the second's.
C13_Witness ==
    /\ last = Event("insert", 1, "schedule", "j")
    /\ value[1] = "abcdefghijj"
    /\ timers[1] = {[id |-> 1, text |-> "abcdefghijj", quiet |-> TRUE]}
    /\ requests[1] = EmptyBag
    /\ state[1].cachedResponse = Null

\* C14. A field has at most one call in flight, however slow the background
\* and however keystrokes, timers and responses interleave.
C14_OneInflight == \A f \in Fields : BagCardinality(requests[f]) <= 1

\* In SpecRace: the call req of field f has been superseded, a call with a
\* longer text is in flight or has brought the cached suggestion.
Superseded(f, req) ==
    \/ \E r \in BagToSet(requests[f]) : Len(r.text) > Len(req.text)
    \/ \E c \in state[f].cachedResponse : Len(c) > Len(req.text)

\* C15. Stale-fetch policy: the response of a call that a newer call of the
\* field has superseded is not applied: the suggestion and cachedResponse stay
\* as they are, so they end as those of the call sent last.
C15_StaleFetch ==
    [][\A f \in Fields : \A req \in BagToSet(requests[f]) :
          (/\ requests'[f] = requests[f] (-) SetToBag({req})
           /\ Superseded(f, req)
           /\ \E outcome \in ApiOutcomes : Deliver(f, req, outcome))
          => (/\ state'[f].suggestion = state[f].suggestion
              /\ state'[f].cachedResponse = state[f].cachedResponse)]_vars

\* s is t without some first characters (or t itself).
IsSuffix(s, t) == \E n \in 0..Len(t) : s = SubSeq(t, n + 1, Len(t))

\* C16. Suggestion provenance: a non-empty suggestion is what a completed
\* call brought, for the text that is the field's cachedResponse, or what is
\* left of it after typed text was taken off its front.  Step by step: a
\* step that ends with a non-empty suggestion either leaves cachedResponse as
\* it is and the suggestion as it is or as a suffix of what it was, or is the
\* arrival of a response, which sets the suggestion to the response's and
\* cachedResponse to the text of the call.
C16_Provenance ==
    [][\A f \in Fields :
          state'[f].suggestion # ""
          => \/ /\ state'[f].cachedResponse = state[f].cachedResponse
                /\ state[f].suggestion # ""
                /\ IsSuffix(state'[f].suggestion, state[f].suggestion)
             \/ \E req \in BagToSet(requests[f]), outcome \in ApiOutcomes :
                    /\ requests'[f] = requests[f] (-) SetToBag({req})
                    /\ state'[f].cachedResponse = Text(req.text)
                    /\ state'[f].suggestion
                           = onMessage(req.text, req.hasContext, outcome).suggestion
                    /\ Deliver(f, req, outcome)]_vars

\* C16: a call for "abcdefghij" brought "j j" and the user typed "j": the
\* suggestion is the suffix " j", cachedResponse the text of the call.
C16_Witness ==
    /\ last = Event("insert", 1, "reconcile", "j")
    /\ state[1].suggestion = " j"
    /\ state[1].cachedResponse = Text("abcdefghij")
    /\ value[1] = "abcdefghijj"

\* C17. originalText is non-empty only between an accept and the next undo
\* or edit of the user: after an input event of the user it is empty.
C17_OriginalTextUntilEdit ==
    [][\A f \in Fields : UserInput(f) => state'[f].originalText = ""]_vars

\* C18. An input event of the user that leaves an invalid trimmed text
\* cancels the pending timer, and no request is sent while the trimmed text
\* of the field is invalid.
C18_InvalidCancelsTimer ==
    [][\A f \in Fields :
          /\ (UserInput(f) /\ ~isValidInput(Trim(value'[f]))) => timers'[f] = {}
          /\ \A t \in timers[f] :
                 (Fire(f, t) /\ requests'[f] # requests[f])
                 => isValidInput(Trim(value[f]))]_vars

\* C19. Deletion mismatch: when the field has a non-empty suggestion and the
\* user deletes a character, leaving a valid text, the suggestion is emptied,
\* the overlay removed and a timer set.
C19_DeletionMismatch ==
    [][\A f \in Fields :
          (/\ Delete(f)
           /\ state[f].suggestion # ""
           /\ isValidInput(Trim(value'[f])))
          => Restarted(f)']_vars

\* C20. After an accept, and after an undo, the field is idle: no suggestion,
\* no overlay, no timer pending and no call in flight that could bring a
\* suggestion without a further input event.
C20_IdleAfterAcceptUndo ==
    \A f \in Fields :
        (last.field = f /\ last.branch \in {"accept", "undo"})
        => (/\ state[f].suggestion = ""
            /\ ~overlay[f].present
            /\ timers[f] = {}
            /\ requests[f] = EmptyBag)

MetaZ == Key("z", FALSE, TRUE)

\* Field f is after the step as it was before it.
Untouched(f) ==
    /\ value'[f] = value[f]
    /\ state'[f] = state[f]
    /\ timers'[f] = timers[f]
    /\ handle'[f] = handle[f]
    /\ overlay'[f] = overlay[f]

\* C21. Undo with nothing to restore: Ctrl+Z on a field whose originalText is
\* empty leaves the value, the state record (suggestion and cachedResponse
\* with it), the pending timer and the overlay as they are.
C21_UndoNothing ==
    [][\A f \in Fields :
          (Keydown(f, CtrlZ) /\ state[f].originalText = "")
          => (Untouched(f) /\ requests' = requests)]_vars

\* C21: Ctrl+Z came while ghost text was showing and nothing had been
\* accepted: the ghost text still shows.
C21_Witness ==
    /\ last.op = "ctrl-z"
    /\ last.branch = "nothing"
    /\ state[1].originalText = ""
    /\ state[1].suggestion = "j j"
    /\ overlay[1].present

\* C22. Tab on a field with an empty suggestion changes nothing (value,
\* state record, overlay, pending timer) and the default action of the key is
\* not prevented.
C22_TabNothing ==
    [][\A f \in Fields :
          (Keydown(f, Tab) /\ state[f].suggestion = "")
          => (/\ Untouched(f)
              /\ requests' = requests
              /\ last'.branch = "default"
              /\ ~handleKeydown(state[f], overlay[f], timers[f], handle[f], value[f],
                                Tab, FreshId(f)).prevented)]_vars

\* C22: Tab came while a timer was pending and no suggestion was there: the
\* timer is still pending.
C22_Witness ==
    /\ last = Event("tab", 1, "default", "abcdefghij")
    /\ state[1].suggestion = ""
    /\ timers[1] # {}
    /\ value[1] = "abcdefghij"

\* C23. Undo by Cmd+Z: a keydown of "z" with the meta key and without the
\* ctrl key on a field with a non-empty originalText restores that text, as
\* Ctrl+Z does.
C23_MetaZUndo ==
    [][\A f \in Fields :
          (Keydown(f, MetaZ) /\ state[f].originalText # "")
          => (/\ value'[f] = state[f].originalText
              /\ state'[f].originalText = ""
              /\ state'[f].suggestion = ""
              /\ ~overlay'[f].present)]_vars

\* C24. remove is idempotent and total: on an overlay record without an
\* overlay it changes nothing, after a remove there is no overlay element,
\* and a second remove changes nothing more.
C24_RemoveIdempotent ==
    \A f \in Fields :
        /\ ~remove(overlay[f]).present
        /\ remove(overlay[f]).attached = 0
        /\ remove(remove(overlay[f])) = remove(overlay[f])
        /\ ~overlay[f].present => remove(overlay[f]) = overlay[f]

\* C24: the field lost the focus while it had no overlay (the response had
\* brought no suggestion): handleBlur called remove with nothing to remove.
C24_Witness ==
    /\ last.op = "blur"
    /\ state[1].suggestion = ""
    /\ state[1].cachedResponse = Null
    /\ overlay[1] = NoOverlay
    /\ timers[1] # {}

\* C25. An overlay does not outlive its field: when a field that has an
\* overlay is taken out of the document, no overlay element of it stays
\* attached to the document.
C25_OverlayWithField ==
    [][\A f \in Fields :
          ((\E blurs \in BOOLEAN : RemoveNode(f, blurs)) /\ overlay[f].present)
          => overlay'[f].attached = 0]_vars

C28_Discovery == document \subseteq tracked

\* C26. Cache short-circuit: when after an insertion the trimmed text of the
\* field is the text of cachedResponse, the suggestion is rendered in that
\* step, no timer is pending after it and no call is sent.
C26_CacheOnInput ==
    [][\A f \in Fields, p \in Inserted :
          (Insertion(f, p) /\ state'[f].cachedResponse = Text(Trim(value'[f])))
          => (/\ timers'[f] = {}
              /\ requests' = requests
              /\ (state'[f].suggestion # ""
                  => overlay'[f].present /\ overlay'[f].ghost = state'[f].suggestion))]_vars

C30_OneOverlay ==
    \A f \in Fields :
        /\ overlay[f].attached <= 1
        /\ overlay[f].present
           => \A s \in {"j j", " j"} :
                  createOrUpdate(overlay[f], value[f], s)
                      = [overlay[f] EXCEPT !.content = value[f], !.ghost = s]

\* C30: the user typed the first character of the ghost text over the last
\* character: the overlay that showed "j j" now shows " j".
C30_Witness ==
    /\ last = Event("replace", 1, "reconcile", "j")
    /\ state[1].suggestion = " j"
    /\ overlay[1] = [present |-> TRUE, attached |-> 1, content |-> value[1], ghost |-> " j"]

\* C31. The default action of a key is prevented exactly when the handler
\* performs an accept or an undo; Ctrl+Z with nothing to restore leaves the
\* page's own undo alone.
C31_PreventedIffHandled ==
    [][\A f \in Fields, k \in Keys :
          Keydown(f, k)
          => (handleKeydown(state[f], overlay[f], timers[f], handle[f], value[f],
                            k, FreshId(f)).prevented
              <=> last'.branch \in {"accept", "undo"})]_vars

\* The suggestions a call of the content script can return.
Fetched ==
    {s \in {getAISuggestion(Resolved(onMessage("", TRUE, o))).value : o \in ApiOutcomes} :
        s # ""}

\* C32. Continuation: while a field has a suggestion, its text is the text of
\* cachedResponse followed by the characters of the fetched suggestion that
\* were typed, and the suggestion is the rest of the fetched one.
C32_Continuation ==
    \A f \in Fields :
        state[f].suggestion # ""
        => \E s \in Fetched, n \in 0..MaxLen, T \in state[f].cachedResponse :
               /\ n <= Len(s)
               /\ state[f].suggestion = Substring(s, n)
               /\ \/ value[f] = T \o SubSeq(s, 1, n)
                  \/ Trim(value[f]) = T \o SubSeq(s, 1, n)

\* C33. Cache coherence: a timer that fires with the text of cachedResponse
\* renders a suggestion that is not empty and is a fetched suggestion.
C33_CacheCoherence ==
    (last.op = "fire" /\ last.branch = "cached")
    => (/\ overlay[last.field].present
        /\ overlay[last.field].ghost # ""
        /\ overlay[last.field].ghost \in Fetched)

\* C34. While a field has an overlay, the reserved text of the overlay is the
\* field's value (the caret is at the end of the text).
C34_ReservedText ==
    \A f \in Fields : overlay[f].present => overlay[f].content = value[f]

\* C35. While a field has an overlay, the ghost text of the overlay is the
\* field's suggestion.
C35_GhostIsSuggestion ==
    \A f \in Fields : overlay[f].present => overlay[f].ghost = state[f].suggestion

\* C35: a space was typed while ghost text showed: suggestion and ghost text
\* are both still "j j".
C35_Witness ==
    /\ last = Event("insert", 1, "space", " ")
    /\ overlay[1].present
    /\ overlay[1].ghost = "j j"
    /\ state[1].suggestion = "j j"

\* C36. Blur removes the overlay and leaves the state record, the value and
\* the timers; the focus that follows shows the suggestion again in one
\* overlay; a focus on a field with an empty suggestion creates no overlay.
C36_BlurFocus ==
    [][\A f \in Fields :
          /\ Blur(f)
             => (/\ ~overlay'[f].present
                 /\ overlay'[f].attached = 0
                 /\ state'[f] = state[f]
                 /\ value'[f] = value[f]
                 /\ timers'[f] = timers[f])
          /\ (Focus(f) /\ last = Event("blur", f, "", "") /\ state[f].suggestion # "")
             => (/\ state'[f] = state[f]
                 /\ overlay'[f] = [present |-> TRUE, attached |-> 1,
                                   content |-> value[f], ghost |-> state[f].suggestion])
          /\ (Focus(f) /\ state[f].suggestion = "")
             => (state'[f] = state[f] /\ overlay'[f] = overlay[f])]_vars

\* C36: the field was focused again after it had lost the focus with the
\* suggestion "j j": the overlay shows "j j" again.
C36_Witness ==
    /\ last = Event("focus", 1, "", "")
    /\ state[1].suggestion = "j j"
    /\ overlay[1] = [present |-> TRUE, attached |-> 1, content |-> value[1], ghost |-> "j j"]

\* C39. attach is idempotent: when the observer reports a field that is
\* tracked already, its state record and everything else of the field stay as
\* they are and no handlers are installed a second time.
C39_AttachOnce ==
    [][\A f \in Fields :
          (AddNode(f, FALSE) /\ f \in tracked)
          => (/\ Untouched(f)
              /\ tracked' = tracked
              /\ ~attach(TRUE, state[f], value[f]).installs
              /\ last'.branch = "known")]_vars

\* C39: field 2 was taken out of the document with its suggestion and
\* inserted again: it still has the suggestion.
C39_Witness ==
    /\ last = Event("add", 2, "known", "")
    /\ 2 \in tracked
    /\ state[2].suggestion = "j j"
    /\ state[2].cachedResponse = Text("abcdefghij")

\* C38. The background answers every generate_suggestion message exactly
\* once: whenever the promise chain of the listener has run it has called
\* sendResponse once, and a message in flight is answered eventually.
C38_OneAnswer ==
    /\ [](last.op = "respond" => last.data = Times(1))
    /\ \A f \in Fields :
           (requests[f] # EmptyBag)
               ~> (last.op = "respond" /\ last.field = f /\ last.data = Times(1))

\* C38: the HTTP call failed (fetch rejected); the listener has answered
\* once, with the text of the error as the suggestion.
C38_Witness ==
    /\ last = Event("respond", 1, "suggestion", Times(1))
    /\ requests[1] = EmptyBag
    /\ state[1].suggestion = "Error fetching response TypeError: Failed to fetch"

\* The steps that are not events of the user.
Work == {"fire", "deliver"}

\* Field f has no pending timer and no call in flight.
Quiescent(f) == timers[f] = {} /\ requests[f] = EmptyBag

\* The pending work of field f ended with the last step.
Ended(f) == Quiescent(f) /\ last.field = f /\ last.op \in Work

\* SUGGESTING: a suggestion and its overlay; IDLE: neither.
AtRest(f) ==
    \/ state[f].suggestion # "" /\ overlay[f].present
    \/ state[f].suggestion = "" /\ ~overlay[f].present

\* C37. Liveness: when the events of the user stop, every field comes to have
\* no pending timer and no call in flight, for good, and a field whose
\* pending work ended so is SUGGESTING or IDLE.
C37_Settles ==
    (<>[][last'.op \in Work]_vars)
    => \A f \in Fields : <>[](Quiescent(f) /\ (Ended(f) => AtRest(f)))

====
